---------------------------- MODULE Spec2Model ----------------------------
(***************************************************************************)
(* Model of the Google Drive folder downloader of                          *)
(* src/src/GdriveDownload/GdriveDownloaderGUI.py: the folder walker        *)
(* (download_folder_recursive, _download_folder_contents,                  *)
(* list_folder_children), the two chunked transfer functions               *)
(* (download_file_to_path_with_retries,                                    *)
(* export_google_workspace_file_with_retries) and the skip check           *)
(* (should_skip_binary_file).                                              *)
(*                                                                         *)
(* Sizes are counted in units of 4 MiB, so the 8 MiB CHUNK_SIZE is 2.      *)
(* File contents are sequences of unit values; the units of different     *)
(* remote objects are different numbers.                                   *)
(*                                                                         *)
(* The googleapiclient class MediaIoBaseDownload, which the transfer       *)
(* functions construct, is modelled by what it does: a new object starts   *)
(* with its progress at 0, next_chunk requests the byte range              *)
(* [progress, progress + chunksize) of the remote object, writes the       *)
(* bytes at the file object's current position, adds their number to its   *)
(* progress and is done when the progress equals the total size.           *)
(***************************************************************************)
EXTENDS Integers, Sequences, FiniteSets, TLC

VARIABLES
    pc,            \* where the walk is: see PcValues
    stack,         \* the active calls of _download_folder_contents, innermost last
    fs,            \* the local files: a function from the existing paths to contents
    dirs,          \* the local directories created so far
    failed_items,  \* the failure ledger (list of records id, name, error)
    force,         \* the global FORCE_REEXPORT_NATIVE
    checkbox,      \* whether the check box force_export_check is checked
    walk_error,    \* the exception that escaped download_folder_recursive, if any
    eng,           \* the locals of the running (or last) transfer call
    hist,          \* what the running (or last) transfer call has done so far
    whist,         \* what the walk has done so far: streams opened, remote failures
    button,        \* the state of the Download button
    run,           \* the inputs and the outcome of download_logic
    ledger,        \* the file FAILED_ITEMS_PATH
    threads,       \* the worker threads of the GUI (specification SpecGui)
    probe          \* the input and the result of a pure function (specification SpecPure)

\* what the walk and the transfer functions never touch
others == <<button, run, ledger, threads, probe>>

vars == <<pc, stack, fs, dirs, failed_items, force, checkbox, walk_error, eng, hist,
          whist, button, run, ledger, threads, probe>>

----------------------------------------------------------------------------
(* Program constants *)

CHUNK_SIZE == 2
MAX_CHUNK_RETRIES == 5
MAX_FILE_RETRIES == 5
\* seconds
INITIAL_BACKOFF == 1
BACKOFF_FACTOR == 2
MAX_BACKOFF_SECONDS == 120

(* Bounds of the model *)

\* size of the binary object A.txt, in units
SizeA == 5
\* a successful chunk is delivered only while the partial file stays this short
PartCap == 9
\* the longest local file the comparator is applied to
MaxLen == 2
\* the largest attempt number the backoff is applied to
MaxAttempt == 9

----------------------------------------------------------------------------
(* The remote hierarchy the walk runs over *)

RootId == "root"
DestDir == "D"

FolderMime == "application/vnd.google-apps.folder"
DocMime == "application/vnd.google-apps.document"
SheetMime == "application/vnd.google-apps.spreadsheet"
SlideMime == "application/vnd.google-apps.presentation"
BinaryMime == "application/octet-stream"

Entries == {"a", "sub", "b", "r"}

\* a second folder, whose children share display names: a document and a
\* presentation both named Notes, two binary files both named C.bin
DupId == "dup"
DupEntries == {"d1", "dsub", "d2", "p1", "p2"}

Name(e) ==
    CASE e = "root" -> "R"
      [] e = "a" -> "A.txt"
      [] e = "sub" -> "sub"
      [] e = "b" -> "B.txt"
      [] e = "r" -> "Report"
      [] e = "dup" -> "Dup"
      [] e = "d1" -> "Notes"
      [] e = "d2" -> "Notes"
      [] e = "dsub" -> "more"
      [] e = "p1" -> "C.bin"
      [] e = "p2" -> "C.bin"

Mime(e) ==
    CASE e \in {"root", "sub", "dup", "dsub"} -> FolderMime
      [] e \in {"r", "d1"} -> DocMime
      [] e = "d2" -> SlideMime
      [] OTHER -> BinaryMime

\* number of units of the object's byte stream (for a document: of its export)
Size(e) ==
    CASE e = "a" -> SizeA
      [] e = "b" -> 1
      [] e = "r" -> 2
      [] e \in {"d1", "d2", "p1"} -> 1
      [] e = "p2" -> 2
      [] OTHER -> 0

Base(e) ==
    CASE e = "a" -> 10
      [] e = "b" -> 30
      [] e = "r" -> 40
      [] e = "d1" -> 50
      [] e = "d2" -> 60
      [] e = "p1" -> 70
      [] e = "p2" -> 80
      [] OTHER -> 0

\* the bytes the remote service serves for the object
RemoteData(e) == [i \in 1..Size(e) |-> Base(e) + i]

\* the content hash: equal hashes exactly for equal contents
Md5(data) == <<"md5", data>>

NoSize == -1
NoMd5 == <<>>

\* the 'size' and 'md5Checksum' fields of the metadata: absent for native documents
DriveSize(e) == IF Mime(e) = BinaryMime THEN Size(e) ELSE NoSize
DriveMd5(e) == IF Mime(e) = BinaryMime THEN Md5(RemoteData(e)) ELSE NoMd5

\* the pages of a folder's listing, in the order the service returns them
Pages(f) ==
    CASE f = "root" -> << <<"a", "sub">>, <<"r">> >>
      [] f = "sub" -> << <<"b">> >>
      [] f = "dup" -> << <<"d1", "dsub">>, <<"d2">> >>
      [] f = "dsub" -> << <<"p1", "p2">> >>

\* what a chunk request can end in: the bytes, an HttpError with this status,
\* or a socket / timeout error
HttpStatuses == {404, 429, 503}
RetryableStatus(s) == s = 429 \/ (500 <= s /\ s < 600)

----------------------------------------------------------------------------
(* Paths and files *)

Join(dir, name) == dir \o "/" \o name

\* a transfer that writes its chunks under the final name
TempPathIsFinal(out) == out

\* temp_path: the final path with ".part" appended (both branches of the
\* expression append ".part" to the path's text)
TempPath(out) == out \o ".part"

Exists(f, p) == p \in DOMAIN f

WriteFile(f, p, data) == [q \in (DOMAIN f) \cup {p} |-> IF q = p THEN data ELSE f[q]]

\* a move that leaves the source in place
RenameCopies(f, src, dst) == WriteFile(f, dst, f[src])

\* Path.replace: the source's content under the target's name, the source gone
Rename(f, src, dst) ==
    [q \in ((DOMAIN f) \ {src}) \cup {dst} |-> IF q = dst THEN f[src] ELSE f[q]]

\* fh.write(bytes) at position pos (0-based) of a file holding data
WriteAt(data, pos, bytes) ==
    LET n == IF pos + Len(bytes) > Len(data) THEN pos + Len(bytes) ELSE Len(data)
    IN [i \in 1..n |-> IF i > pos /\ i <= pos + Len(bytes) THEN bytes[i - pos] ELSE data[i]]

IsPrefix(s, t) == Len(s) <= Len(t) /\ \A i \in 1..Len(s) : s[i] = t[i]

----------------------------------------------------------------------------
(* _safe_sleep_backoff *)

\* http_status=None
NoStatus == 0

RECURSIVE Pow(_, _)
\* b ** k
Pow(b, k) == IF k = 0 THEN 1 ELSE b * Pow(b, k - 1)

\* a backoff that clamps the base delay and doubles it afterwards
BackoffClampsFirst(attempt, http_status) ==
    LET base == INITIAL_BACKOFF * Pow(BACKOFF_FACTOR, attempt - 1)
        clamped == IF base < MAX_BACKOFF_SECONDS THEN base ELSE MAX_BACKOFF_SECONDS
    IN IF http_status # NoStatus
          /\ (http_status = 429 \/ (500 <= http_status /\ http_status < 600))
       THEN clamped * 2
       ELSE clamped

\* a backoff that starts over once the base delay passes the maximum
BackoffWrapsAtMax(attempt, http_status) ==
    LET base == INITIAL_BACKOFF * Pow(BACKOFF_FACTOR, attempt - 1)
        doubled == IF http_status # NoStatus
                      /\ (http_status = 429 \/ (500 <= http_status /\ http_status < 600))
                   THEN base * 2
                   ELSE base
    IN IF doubled < MAX_BACKOFF_SECONDS THEN doubled ELSE INITIAL_BACKOFF

\* the delay _safe_sleep_backoff sleeps, in seconds
SafeSleepBackoff(attempt, http_status) ==
    LET base == INITIAL_BACKOFF * Pow(BACKOFF_FACTOR, attempt - 1)
        doubled == IF http_status # NoStatus
                      /\ (http_status = 429 \/ (500 <= http_status /\ http_status < 600))
                   THEN base * 2
                   ELSE base
    IN IF doubled < MAX_BACKOFF_SECONDS THEN doubled ELSE MAX_BACKOFF_SECONDS

----------------------------------------------------------------------------
(* should_skip_binary_file *)

\* a 'size' field that int() does not accept
BadSize == -2

\* drive_size_int: int(drive_size), or None when the field is absent or int() raises
ParseSize(drive_size) == IF drive_size = BadSize THEN NoSize ELSE drive_size

\* a comparator that never takes the size for a match
SizeNeverMatches(local_size, drive_size_int) == FALSE

\* drive_size_int is not None and local_size == drive_size_int
SizeMatches(local_size, drive_size_int) ==
    drive_size_int # NoSize /\ local_size = drive_size_int

\* what the comparator sees of the local path: whether it exists, its bytes, and
\* whether md5_of_file can read them
LocalFile(f, p) ==
    IF Exists(f, p) THEN [exists |-> TRUE, data |-> f[p], readable |-> TRUE]
    ELSE [exists |-> FALSE, data |-> <<>>, readable |-> FALSE]

\* a comparator that computes the hash before it looks at the size
SkipCheckHashFirst(local, drive_size, drive_md5) ==
    IF ~local.exists THEN [skip |-> FALSE, hashed |-> FALSE]
    ELSE IF drive_md5 # NoMd5
    THEN [skip |-> (local.readable /\ Md5(local.data) = drive_md5)
                   \/ SizeMatches(Len(local.data), ParseSize(drive_size)),
          hashed |-> TRUE]
    ELSE [skip |-> SizeMatches(Len(local.data), ParseSize(drive_size)), hashed |-> FALSE]

\* the decision of should_skip_binary_file (skip), and whether md5_of_file was
\* called on the way (hashed); a file md5_of_file cannot read matches no hash
SkipCheck(local, drive_size, drive_md5) ==
    IF ~local.exists THEN [skip |-> FALSE, hashed |-> FALSE]
    ELSE IF SizeMatches(Len(local.data), ParseSize(drive_size))
    THEN [skip |-> TRUE, hashed |-> FALSE]
    ELSE IF drive_md5 # NoMd5
    THEN [skip |-> local.readable /\ Md5(local.data) = drive_md5, hashed |-> TRUE]
    ELSE [skip |-> FALSE, hashed |-> FALSE]

\* a comparator that never skips
ShouldSkipNever(f, p, drive_size, drive_md5) == FALSE

ShouldSkip(f, p, drive_size, drive_md5) ==
    SkipCheck(LocalFile(f, p), drive_size, drive_md5).skip

\* the exceptions should_skip_binary_file catches on the way: int(drive_size)
\* raising, md5_of_file raising
SkipCaught(local, drive_size, drive_md5) ==
    (IF local.exists /\ drive_size = BadSize THEN 1 ELSE 0)
    + (IF SkipCheck(local, drive_size, drive_md5).hashed /\ ~local.readable THEN 1 ELSE 0)

\* those of them whose handler calls log_callback: the handler of md5_of_file
\* does, the handler of int(drive_size) only sets drive_size_int = None
SkipCaughtLogged(local, drive_size, drive_md5) ==
    IF SkipCheck(local, drive_size, drive_md5).hashed /\ ~local.readable THEN 1 ELSE 0

\* the exceptions the integrity check after the move catches: md5_of_file
\* raising, when the metadata has an md5Checksum
VerifyCaught(local, drive_md5) ==
    IF drive_md5 # NoMd5 /\ ~(local.exists /\ local.readable) THEN 1 ELSE 0

\* those of them whose handler calls log_callback: the handler is 'pass'
VerifyCaughtLogged(local, drive_md5) == 0

----------------------------------------------------------------------------
(* The locals of a transfer call, and its history *)

PcValues == {"idle", "logic", "early", "root", "list", "child", "open", "chunk",
             "publish", "raised", "walk_done", "walk_raised", "run_done"}

IdleEng ==
    [kind |-> "none", id |-> "none", out |-> "", temp |-> "",
     file_attempt |-> 0, chunk_attempt |-> 0, last_pct |-> -1,
     progress |-> 0, pos |-> 0, done |-> FALSE, result |-> "none",
     error |-> "none"]

\* lastReq, lastStatus: how the latest chunk request ended; sleptSince: a backoff
\* sleep has followed it; reqAttempt: the file attempt that issued it;
\* cb: the last two calls of progress_percent_callback; consec: failed chunk
\* requests since the latest successful one of this file attempt; escConsec: consec
\* when the chunk loop last escalated; exhausted: file attempts ended by the chunk
\* budget; fails: failed chunk requests (counted to 2); failAt: length of the
\* partial file at the first of them; hadPart: the partial file existed at the
\* call; reset: a successful chunk has followed a failed one in one file attempt;
\* suppressed: a successful chunk's percentage was not reported; md5warn: the
\* integrity check after the move logged a mismatch; anyOk: a chunk request of
\* the call has succeeded; chunkSleeps: calls of _safe_sleep_backoff by the
\* chunk handlers since the latest successful chunk of this file attempt;
\* fileSleeps: calls of it by the file handler; lastSleep: the call of it that
\* followed the latest chunk request, if that request failed and a handler slept
\* (which handler, with which attempt number, for how long); final0: the final
\* path as the call found it
NoHist ==
    [lastReq |-> "none", lastStatus |-> 0, sleptSince |-> FALSE, reqAttempt |-> 0,
     cb |-> <<>>, consec |-> 0, escConsec |-> 0, exhausted |-> 0,
     fails |-> 0, failAt |-> 0, hadPart |-> FALSE, reset |-> FALSE,
     suppressed |-> FALSE, md5warn |-> FALSE, anyOk |-> FALSE,
     chunkSleeps |-> 0, fileSleeps |-> 0,
     lastSleep |-> [level |-> "none", n |-> 0, delay |-> 0],
     final0 |-> [exists |-> FALSE, data |-> <<>>, readable |-> FALSE]]

\* the history after progress_percent_callback(pct)
Report(h, pct, src, attempt) ==
    LET r == [pct |-> pct, src |-> src, attempt |-> attempt]
    IN [h EXCEPT !.cb = IF Len(h.cb) = 0 THEN <<r>> ELSE <<h.cb[Len(h.cb)], r>>]

Top == stack[Len(stack)]

\* a loop that takes up the same item again
AdvanceStays(st) == st

\* the for loop of _download_folder_contents goes on to its next item
Advance(st) == [st EXCEPT ![Len(st)].idx = st[Len(st)].idx + 1]

Frame(folder, path) ==
    [folder |-> folder, path |-> path, page |-> 1, idx |-> 1, items |-> <<>>]

\* the item the innermost loop is at
AtItem == pc = "child" /\ Top.idx <= Len(Top.items)
Item == Top.items[Top.idx]

FailureRecord(e, err) == [id |-> e, name |-> Name(e), error |-> err]

----------------------------------------------------------------------------
(* Init: the application window is built; the destination and the ledger file
   are what an earlier run, if any, left behind *)

\* the ledger file FAILED_ITEMS_PATH: whether it exists, and its lines
NoLedger == [exists |-> FALSE, lines |-> <<>>]
OldLedger == [exists |-> TRUE, lines |-> <<"b\tB.txt\tsock\n">>]

\* streams: the entries a fetch or export stream was opened for; faulted: a
\* remote call has failed; warned: the entries whose integrity check logged a
\* mismatch; order: the children in the order the walker's loops took them up;
\* finished: the children the loops are through with (transferred, skipped,
\* recorded as failed, or a folder whose call has returned or raised)
NoWalkHist ==
    [streams |-> {}, faulted |-> FALSE, warned |-> {}, order |-> <<>>, finished |-> {}]

\* the walker's loop takes up child e / is through with child e
Started(w, e) == [w EXCEPT !.order = Append(w.order, e)]
Finished(w, e) == [w EXCEPT !.finished = w.finished \cup {e}]

\* the inputs of a run not yet read, and no outcome yet; fs0, ledger0: the local
\* files and the ledger file as the run found them; shown: the message box the
\* run ended with; writes: how often the ledger file was opened for writing;
\* folder: the folder id the URL field holds
NoRun ==
    [input |-> "none", secrets |-> TRUE, outcome |-> "none", writes |-> 0,
     shown |-> "none", fs0 |-> << >>, ledger0 |-> NoLedger, folder |-> RootId]

NoProbe == [fn |-> "none"]

\* the destinations a run can start on: empty; a stale A.txt; a partial file of
\* A.txt; the files of an earlier run whose fetch of B.txt failed
Scenarios ==
    {[fs |-> << >>, ledger |-> NoLedger],
     [fs |-> [p \in {Join(Join(DestDir, Name(RootId)), Name("a"))} |-> <<99>>],
      ledger |-> NoLedger],
     [fs |-> [p \in {TempPath(Join(Join(DestDir, Name(RootId)), Name("a")))} |-> <<11, 12>>],
      ledger |-> NoLedger],
     [fs |-> (Join(Join(DestDir, Name(RootId)), Name("a")) :> RemoteData("a"))
             @@ (Join(Join(DestDir, Name(RootId)), Name("r") \o ".pdf") :> <<77>>),
      ledger |-> OldLedger]}

Init ==
    /\ pc = "idle"
    /\ stack = <<>>
    /\ \E sc \in Scenarios :
          /\ fs = sc.fs
          /\ ledger = sc.ledger
          /\ run = [NoRun EXCEPT !.fs0 = sc.fs, !.ledger0 = sc.ledger]
    /\ dirs = {}
    /\ failed_items = <<>>
    /\ force = FALSE
    /\ checkbox = force
    /\ walk_error = "none"
    /\ eng = IdleEng
    /\ hist = NoHist
    /\ whist = NoWalkHist
    /\ button = "normal"
    /\ threads = <<>>
    /\ probe = NoProbe

----------------------------------------------------------------------------
(* download_folder_recursive *)

ResolveRootOk ==
    /\ pc = "root"
    /\ pc' = "list"
    /\ stack' = <<Frame(run.folder, Join(DestDir, Name(run.folder)))>>
    /\ dirs' = dirs \cup {Join(DestDir, Name(run.folder))}
    /\ UNCHANGED <<fs, failed_items, force, checkbox, walk_error, eng, hist, whist, others>>

ResolveRootFail ==
    /\ pc = "root"
    /\ pc' = "walk_raised"
    /\ walk_error' = "meta"
    /\ whist' = [whist EXCEPT !.faulted = TRUE]
    /\ UNCHANGED <<stack, fs, dirs, failed_items, force, checkbox, eng, hist, others>>

----------------------------------------------------------------------------
(* list_folder_children, as the for loop of _download_folder_contents drives it *)

\* the generator requests the page it is at, and the request succeeds
ListPageOk ==
    /\ pc = "list"
    /\ pc' = "child"
    /\ stack' = [stack EXCEPT ![Len(stack)].items = Pages(Top.folder)[Top.page],
                              ![Len(stack)].idx = 1]
    /\ UNCHANGED <<fs, dirs, failed_items, force, checkbox, walk_error, eng, hist, whist, others>>

\* a listing failure that no caller catches
ListingEscapes(st, items) ==
    [pc |-> "walk_raised", stack |-> <<>>, failed |-> items, error |-> "list"]

\* where an exception of the for statement itself goes: it leaves this call of
\* _download_folder_contents; the caller's per-child handler (lines 341-343)
\* records it for the subfolder, and from the root's call it leaves
\* download_folder_recursive
ListingRaises(st, items) ==
    IF Len(st) = 1
    THEN [pc |-> "walk_raised", stack |-> <<>>, failed |-> items, error |-> "list"]
    ELSE LET parent == SubSeq(st, 1, Len(st) - 1)
         IN [pc |-> "child", stack |-> Advance(parent),
             failed |-> Append(items, FailureRecord(st[Len(st)].folder, "list")),
             error |-> "none"]

\* the request of a page fails
ListPageFail ==
    /\ pc = "list"
    /\ LET r == ListingRaises(stack, failed_items)
       IN /\ pc' = r.pc
          /\ stack' = r.stack
          /\ failed_items' = r.failed
          /\ walk_error' = r.error
    /\ whist' = IF Len(stack) > 1
                THEN Finished([whist EXCEPT !.faulted = TRUE], Top.folder)
                ELSE [whist EXCEPT !.faulted = TRUE]
    /\ UNCHANGED <<fs, dirs, force, checkbox, eng, hist, others>>

\* the page is used up and names a next page
NextPage ==
    /\ pc = "child"
    /\ Top.idx > Len(Top.items)
    /\ Top.page < Len(Pages(Top.folder))
    /\ pc' = "list"
    /\ stack' = [stack EXCEPT ![Len(stack)].page = Top.page + 1]
    /\ UNCHANGED <<fs, dirs, failed_items, force, checkbox, walk_error, eng, hist, whist, others>>

\* the listing is used up: this call of _download_folder_contents returns
FolderDone ==
    /\ pc = "child"
    /\ Top.idx > Len(Top.items)
    /\ Top.page >= Len(Pages(Top.folder))
    /\ IF Len(stack) = 1
       THEN pc' = "walk_done" /\ stack' = <<>>
       ELSE pc' = "child" /\ stack' = Advance(SubSeq(stack, 1, Len(stack) - 1))
    /\ whist' = IF Len(stack) = 1 THEN whist ELSE Finished(whist, Top.folder)
    /\ UNCHANGED <<fs, dirs, failed_items, force, checkbox, walk_error, eng, hist, others>>

----------------------------------------------------------------------------
(* _download_folder_contents: one child *)

\* a per-child handler that logs the exception and records nothing
CatchChildErrorDropped(items, e, err) == items

\* what the per-child handler does with an exception (lines 341-343)
CatchChildError(items, e, err) == Append(items, FailureRecord(e, err))

\* get_file_metadata of the child fails
ChildMetaFail ==
    /\ AtItem
    /\ failed_items' = CatchChildError(failed_items, Item, "meta")
    /\ stack' = Advance(stack)
    /\ whist' = Finished(Started([whist EXCEPT !.faulted = TRUE], Item), Item)
    /\ UNCHANGED <<pc, fs, dirs, force, checkbox, walk_error, eng, hist, others>>

\* a walker that fetches every child that is not a folder under its bare name
DispatchAllFetched(mime, dir, name) ==
    IF mime = FolderMime
    THEN [call |-> "recurse", out |-> Join(dir, name), as |-> ""]
    ELSE [call |-> "fetch", out |-> Join(dir, name), as |-> ""]

\* the if / elif chain of _download_folder_contents: the function the child is
\* handed to, the local path it is given, and the export format
Dispatch(mime, dir, name) ==
    IF mime = FolderMime
    THEN [call |-> "recurse", out |-> Join(dir, name), as |-> ""]
    ELSE IF mime = DocMime
    THEN [call |-> "export", out |-> Join(dir, name \o ".pdf"),
          as |-> "application/pdf"]
    ELSE IF mime = SheetMime
    THEN [call |-> "export", out |-> Join(dir, name \o ".xlsx"),
          as |-> "application/vnd.openxmlformats-officedocument.spreadsheetml.sheet"]
    ELSE IF mime = SlideMime
    THEN [call |-> "export", out |-> Join(dir, name \o ".pdf"),
          as |-> "application/pdf"]
    ELSE [call |-> "fetch", out |-> Join(dir, name), as |-> ""]

\* the child is a folder: the recursive call begins
EnterFolder ==
    /\ AtItem
    /\ Dispatch(Mime(Item), Top.path, Name(Item)).call = "recurse"
    /\ pc' = "list"
    /\ stack' = Append(stack, Frame(Item, Dispatch(Mime(Item), Top.path, Name(Item)).out))
    /\ dirs' = dirs \cup {Dispatch(Mime(Item), Top.path, Name(Item)).out}
    /\ whist' = Started(whist, Item)
    /\ UNCHANGED <<fs, failed_items, force, checkbox, walk_error, eng, hist, others>>

\* the locals at the first file attempt of a transfer that is not skipped
StartEng(kind, e, out) ==
    [IdleEng EXCEPT !.kind = kind, !.id = e, !.out = out, !.temp = TempPath(out),
                    !.file_attempt = 1, !.result = "running"]

\* the locals and the history of a skipped transfer: progress 100, return
SkippedEng(kind, e, out) ==
    [IdleEng EXCEPT !.kind = kind, !.id = e, !.out = out, !.result = "skipped"]

\* the child is a binary file: download_file_to_path_with_retries up to its
\* first file attempt
StartFetch ==
    /\ AtItem
    /\ Dispatch(Mime(Item), Top.path, Name(Item)).call = "fetch"
    /\ LET out == Dispatch(Mime(Item), Top.path, Name(Item)).out
       IN IF ShouldSkip(fs, out, DriveSize(Item), DriveMd5(Item))
          THEN /\ eng' = SkippedEng("fetch", Item, out)
               /\ hist' = Report([NoHist EXCEPT !.final0 = LocalFile(fs, out)],
                                 100, "skip", 0)
               /\ pc' = "child"
               /\ stack' = Advance(stack)
               /\ dirs' = dirs
               /\ whist' = Finished(Started(whist, Item), Item)
          ELSE /\ eng' = StartEng("fetch", Item, out)
               /\ hist' = [NoHist EXCEPT !.hadPart = Exists(fs, TempPath(out)),
                                         !.final0 = LocalFile(fs, out)]
               /\ pc' = "open"
               /\ stack' = stack
               /\ dirs' = dirs \cup {Top.path}
               /\ whist' = Started(whist, Item)
    /\ UNCHANGED <<fs, failed_items, force, checkbox, walk_error, others>>

\* an export that skips whenever the target exists
ExportSkipsForcedToo(exists, forced) == exists

\* if out_path.exists() and not FORCE_REEXPORT_NATIVE
ExportSkips(exists, forced) == exists /\ ~forced

\* the child is a native document: export_google_workspace_file_with_retries up
\* to its first file attempt
StartExport ==
    /\ AtItem
    /\ Dispatch(Mime(Item), Top.path, Name(Item)).call = "export"
    /\ LET out == Dispatch(Mime(Item), Top.path, Name(Item)).out
       IN IF ExportSkips(Exists(fs, out), force)
          THEN /\ eng' = SkippedEng("export", Item, out)
               /\ hist' = Report([NoHist EXCEPT !.final0 = LocalFile(fs, out)],
                                 100, "skip", 0)
               /\ pc' = "child"
               /\ stack' = Advance(stack)
               /\ dirs' = dirs
               /\ whist' = Finished(Started(whist, Item), Item)
          ELSE /\ eng' = StartEng("export", Item, out)
               /\ hist' = [NoHist EXCEPT !.hadPart = Exists(fs, TempPath(out)),
                                         !.final0 = LocalFile(fs, out)]
               /\ pc' = "open"
               /\ stack' = stack
               /\ dirs' = dirs \cup {Top.path}
               /\ whist' = Started(whist, Item)
    /\ UNCHANGED <<fs, failed_items, force, checkbox, walk_error, others>>

\* the transfer call raised: the per-child handler records it, the loop goes on
CatchChild ==
    /\ pc = "raised"
    /\ failed_items' = CatchChildError(failed_items, eng.id, eng.error)
    /\ pc' = "child"
    /\ stack' = Advance(stack)
    /\ whist' = Finished(whist, eng.id)
    /\ UNCHANGED <<fs, dirs, force, checkbox, walk_error, eng, hist, others>>

----------------------------------------------------------------------------
(* The file attempt and the chunk loop, the same in
   download_file_to_path_with_retries and
   export_google_workspace_file_with_retries *)

\* a file attempt that always creates the partial file anew
OpenModeAlwaysWb(exists) == "wb"

\* mode = "r+b" if temp_path.exists() else "wb"
OpenMode(exists) == IF exists THEN "r+b" ELSE "wb"

\* what open(temp_path, mode) leaves in the file
OpenedData(mode, f, p) == IF mode = "wb" THEN <<>> ELSE f[p]

\* the file position after open and, in mode "r+b", fh.seek(0, os.SEEK_END)
OpenedPos(mode, data) == IF mode = "r+b" THEN Len(data) ELSE 0

\* the progress of a MediaIoBaseDownload just constructed
NewDownloader == 0

\* a file attempt begins: the partial file is opened, the request and the
\* downloader are made, the loop's locals are set
OpenPartial ==
    /\ pc = "open"
    /\ LET mode == OpenMode(Exists(fs, eng.temp))
           data == OpenedData(mode, fs, eng.temp)
       IN /\ fs' = WriteFile(fs, eng.temp, data)
          /\ eng' = [eng EXCEPT !.pos = OpenedPos(mode, data),
                                !.progress = NewDownloader,
                                !.done = FALSE,
                                !.chunk_attempt = 0,
                                !.last_pct = -1]
    /\ hist' = [hist EXCEPT !.consec = 0, !.chunkSleeps = 0]
    /\ whist' = [whist EXCEPT !.streams = whist.streams \cup {eng.id}]
    /\ pc' = "chunk"
    /\ UNCHANGED <<stack, dirs, failed_items, force, checkbox, walk_error, others>>

\* the bytes the service returns for the range the downloader asks for
ChunkBytes(e, progress) ==
    LET last == IF progress + CHUNK_SIZE < Size(e) THEN progress + CHUNK_SIZE ELSE Size(e)
    IN [i \in 1..(last - progress) |-> RemoteData(e)[progress + i]]

\* int(status.progress() * 100)
Pct(progress, total) == IF total = 0 THEN 0 ELSE (progress * 100) \div total

\* a chunk loop that keeps its count of failures over a successful chunk
AfterSuccessKept(chunk_attempt) == chunk_attempt

\* chunk_attempt after a successful next_chunk
AfterSuccess(chunk_attempt) == 0

\* a chunk loop that reports every percentage
ReportsAlways(pct, last_pct) == TRUE

\* whether the chunk loop reports this percentage
Reports(pct, last_pct) == pct # last_pct

\* downloader.next_chunk() returns
ChunkOk ==
    /\ pc = "chunk"
    /\ LET bytes == ChunkBytes(eng.id, eng.progress)
           progress == eng.progress + Len(bytes)
           done == progress = Size(eng.id)
           pct == Pct(progress, Size(eng.id))
           h == [hist EXCEPT !.lastReq = "ok", !.lastStatus = 0, !.sleptSince = FALSE,
                             !.reqAttempt = eng.file_attempt, !.consec = 0,
                             !.anyOk = TRUE, !.chunkSleeps = 0,
                             !.lastSleep = NoHist.lastSleep,
                             !.reset = hist.reset \/ hist.consec > 0,
                             !.suppressed = hist.suppressed \/ pct = eng.last_pct]
       IN /\ eng.pos + Len(bytes) <= PartCap
          /\ fs' = WriteFile(fs, eng.temp, WriteAt(fs[eng.temp], eng.pos, bytes))
          /\ eng' = [eng EXCEPT !.pos = eng.pos + Len(bytes),
                                !.progress = progress,
                                !.done = done,
                                !.chunk_attempt = AfterSuccess(eng.chunk_attempt),
                                !.last_pct = IF Reports(pct, eng.last_pct) THEN pct
                                             ELSE eng.last_pct]
          /\ hist' = IF Reports(pct, eng.last_pct)
                     THEN Report(h, pct, "chunk", eng.file_attempt)
                     ELSE h
          /\ pc' = IF done THEN "publish" ELSE "chunk"
    /\ UNCHANGED <<stack, dirs, failed_items, force, checkbox, walk_error, whist, others>>

\* a chunk loop that escalates one failure early
ChunkBudgetExceededEarly(chunk_attempt) == chunk_attempt >= MAX_CHUNK_RETRIES

\* if chunk_attempt > MAX_CHUNK_RETRIES: raise
ChunkBudgetExceeded(chunk_attempt) == chunk_attempt > MAX_CHUNK_RETRIES

\* a file loop that gives up one attempt early
FileBudgetExhaustedEarly(file_attempt) == file_attempt >= MAX_FILE_RETRIES - 1

\* if file_attempt >= MAX_FILE_RETRIES: raise
FileBudgetExhausted(file_attempt) == file_attempt >= MAX_FILE_RETRIES

\* whether the handler of an HttpError of this status retries the chunk: the
\* handler does not look at the status before it retries
RetriesStatus(status) == TRUE

\* _safe_sleep_backoff(chunk_attempt, http_status=status_code) of the HttpError
\* handler, _safe_sleep_backoff(chunk_attempt) of the socket / OS error handler
\* (whose status is NoStatus)
ChunkSleep(chunk_attempt, status) ==
    [level |-> "chunk", n |-> chunk_attempt,
     delay |-> SafeSleepBackoff(chunk_attempt, status)]

\* _safe_sleep_backoff(file_attempt) of the file handler
FileSleep(file_attempt) ==
    [level |-> "file", n |-> file_attempt,
     delay |-> SafeSleepBackoff(file_attempt, NoStatus)]

\* next_chunk raised (an HttpError of the status, or a socket / OS error): the
\* handler of the chunk loop and, when it re-raises, the handler of the file loop
ChunkFailure(outcome, status) ==
    /\ pc = "chunk"
    /\ LET ca == eng.chunk_attempt + 1
           h == [hist EXCEPT !.lastReq = outcome, !.lastStatus = status,
                             !.sleptSince = FALSE,
                             !.lastSleep = NoHist.lastSleep,
                             !.escConsec = IF ca > MAX_CHUNK_RETRIES
                                           THEN hist.consec + 1 ELSE hist.escConsec,
                             !.exhausted = IF ca > MAX_CHUNK_RETRIES
                                           THEN hist.exhausted + 1 ELSE hist.exhausted,
                             !.reqAttempt = eng.file_attempt,
                             !.consec = hist.consec + 1,
                             !.fails = IF hist.fails < 2 THEN hist.fails + 1 ELSE 2,
                             !.failAt = IF hist.fails = 0 THEN Len(fs[eng.temp])
                                        ELSE hist.failAt]
       IN IF ChunkBudgetExceeded(ca) \/ ~RetriesStatus(status)
          THEN IF FileBudgetExhausted(eng.file_attempt)
               THEN /\ pc' = "raised"
                    /\ eng' = [eng EXCEPT !.chunk_attempt = ca, !.result = "raised",
                                          !.error = outcome]
                    /\ hist' = h
               ELSE /\ pc' = "open"
                    /\ eng' = [eng EXCEPT !.chunk_attempt = ca,
                                          !.file_attempt = eng.file_attempt + 1]
                    /\ hist' = [h EXCEPT !.sleptSince = TRUE,
                                         !.fileSleeps = h.fileSleeps + 1,
                                         !.lastSleep = FileSleep(eng.file_attempt)]
          ELSE /\ pc' = "chunk"
               /\ eng' = [eng EXCEPT !.chunk_attempt = ca, !.progress = NewDownloader]
               /\ hist' = [h EXCEPT !.sleptSince = TRUE,
                                    !.chunkSleeps = h.chunkSleeps + 1,
                                    !.lastSleep = ChunkSleep(ca, status)]
    /\ whist' = [whist EXCEPT !.faulted = TRUE]
    /\ UNCHANGED <<stack, fs, dirs, failed_items, force, checkbox, walk_error, others>>

ChunkHttpError == \E status \in HttpStatuses : ChunkFailure("http", status)

ChunkNetError == ChunkFailure("sock", 0)

\* whether the integrity check after the move finds a mismatch: only the binary
\* fetch checks, and only when the metadata has an md5Checksum
Md5Mismatch(kind, data, drive_md5) ==
    kind = "fetch" /\ drive_md5 # NoMd5 /\ Md5(data) # drive_md5

\* an integrity check that raises on a mismatch
Md5CheckRaises(mismatch) == IF mismatch THEN "raised" ELSE "returned"

\* how the call ends after the integrity check: a mismatch is only logged
Md5Check(mismatch) == "returned"

\* the chunk loop is done: the partial file is moved to the final path, 100 is
\* reported, the integrity check is made, the call returns and the walker's
\* loop goes on; an exception of the check would go to the walker's handler
Publish ==
    /\ pc = "publish"
    /\ fs' = Rename(fs, eng.temp, eng.out)
    /\ LET mismatch == Md5Mismatch(eng.kind, fs[eng.temp], DriveMd5(eng.id))
           result == Md5Check(mismatch)
       IN /\ eng' = [eng EXCEPT !.result = result,
                                !.error = IF result = "raised" THEN "md5" ELSE eng.error]
          /\ hist' = [Report(hist, 100, "final", eng.file_attempt)
                         EXCEPT !.md5warn = mismatch]
          /\ whist' = LET w == [whist EXCEPT !.warned = IF mismatch
                                                          THEN whist.warned \cup {eng.id}
                                                          ELSE whist.warned]
                      IN IF result = "raised" THEN w ELSE Finished(w, eng.id)
          /\ pc' = IF result = "raised" THEN "raised" ELSE "child"
          /\ stack' = IF result = "raised" THEN stack ELSE Advance(stack)
    /\ UNCHANGED <<dirs, failed_items, force, checkbox, walk_error, others>>

----------------------------------------------------------------------------
(* GdriveDownloaderApp.toggle_force_export *)

\* a handler that switches forcing on, whatever it was
ToggledOn(forced) == TRUE

\* FORCE_REEXPORT_NATIVE = not FORCE_REEXPORT_NATIVE
Toggled(forced) == ~forced

\* a click on the check box: the check box changes its checked state and calls
\* its command, toggle_force_export; the GUI thread does this at any time,
\* whatever the worker thread is at
ToggleForceExport ==
    /\ checkbox' = ~checkbox
    /\ force' = Toggled(force)
    /\ UNCHANGED <<pc, stack, fs, dirs, failed_items, walk_error, eng, hist,
                   whist, others>>

----------------------------------------------------------------------------
(* GdriveDownloaderApp.start_download_thread and download_logic *)

\* what the URL and output-directory fields hold
Inputs == {"missing", "bad_url", "ok"}

\* a download_logic that goes on without client secrets
LogicOutcomeNoSecretsNeeded(input, secrets) ==
    IF input = "missing" THEN "no_input"
    ELSE IF input = "bad_url" THEN "bad_url"
    ELSE "walk"

\* how far download_logic gets before the walk: the inputs are checked first,
\* then get_credentials, then extract_file_id
LogicOutcome(input, secrets) ==
    IF input = "missing" THEN "no_input"
    ELSE IF ~secrets THEN "no_creds"
    ELSE IF input = "bad_url" THEN "bad_url"
    ELSE "walk"

\* the Download button's command: a worker thread is started
StartDownloadThread ==
    /\ pc = "idle"
    /\ button = "normal"
    /\ pc' = "logic"
    /\ UNCHANGED <<stack, fs, dirs, failed_items, force, checkbox, walk_error, eng, hist, whist,
                   button, run, ledger, threads, probe>>

\* download_logic up to the call of download_folder_recursive or to the first
\* return / raise before it
DownloadLogic ==
    /\ pc = "logic"
    /\ button' = "disabled"
    /\ failed_items' = <<>>
    /\ \E input \in Inputs, secrets \in BOOLEAN :
          LET outcome == LogicOutcome(input, secrets)
          IN /\ run' = [run EXCEPT !.input = input, !.secrets = secrets,
                                   !.outcome = outcome]
             /\ pc' = IF outcome = "walk" THEN "root" ELSE "early"
    /\ UNCHANGED <<stack, fs, dirs, force, checkbox, walk_error, eng, hist, whist,
                   ledger, threads, probe>>

\* the lines written for the ledger: one f.write per item
LedgerLine(it) == it.id \o "\t" \o it.name \o "\t" \o it.error \o "\n"

\* a finally block that opens the ledger file for appending
WriteLedgerAppend(old, items) ==
    [exists |-> TRUE, lines |-> old.lines \o [i \in 1..Len(items) |-> LedgerLine(items[i])]]

\* open(FAILED_ITEMS_PATH, 'w') and the writes of the for loop
WriteLedger(old, items) ==
    [exists |-> TRUE, lines |-> [i \in 1..Len(items) |-> LedgerLine(items[i])]]

\* the message box download_logic shows on its way out: a warning at the input
\* check, "Configuration error" in the handler of FileNotFoundError, "Invalid
\* URL/ID" at extract_file_id, "Error" in the handler of any other exception
MessageShown(at, outcome) ==
    IF at = "walk_raised" THEN "error"
    ELSE IF at = "walk_done" THEN "none"
    ELSE IF outcome = "no_input" THEN "input_required"
    ELSE IF outcome = "no_creds" THEN "configuration_error"
    ELSE "invalid_url"

\* a ledger that is written only when the walk returned
FlushesAfterWalkOnly(at, items) == items # <<>> /\ at = "walk_done"

\* if failed_items: the finally block is reached from every way out of the try
\* statement (the returns, the handlers, the end of the walk)
Flushes(at, items) == items # <<>>

\* the handlers and the finally block of download_logic: the ledger file is
\* written if failed_items is not empty, the button is enabled again
Finally ==
    /\ pc \in {"early", "walk_done", "walk_raised"}
    /\ IF Flushes(pc, failed_items)
       THEN /\ ledger' = WriteLedger(ledger, failed_items)
            /\ run' = [run EXCEPT !.writes = run.writes + 1,
                                  !.shown = MessageShown(pc, run.outcome)]
       ELSE /\ ledger' = ledger
            /\ run' = [run EXCEPT !.shown = MessageShown(pc, run.outcome)]
    /\ button' = "normal"
    /\ pc' = "run_done"
    /\ UNCHANGED <<stack, fs, dirs, failed_items, force, checkbox, walk_error, eng, hist, whist,
                   threads, probe>>

----------------------------------------------------------------------------

Next ==
    \/ StartDownloadThread
    \/ DownloadLogic
    \/ Finally
    \/ ResolveRootOk
    \/ ResolveRootFail
    \/ ListPageOk
    \/ ListPageFail
    \/ NextPage
    \/ FolderDone
    \/ ChildMetaFail
    \/ EnterFolder
    \/ StartFetch
    \/ StartExport
    \/ CatchChild
    \/ OpenPartial
    \/ ChunkOk
    \/ ChunkHttpError
    \/ ChunkNetError
    \/ Publish
    \/ ToggleForceExport

Spec == Init /\ [][Next]_vars

----------------------------------------------------------------------------
(* One transfer call, from the walker's dispatch of a child to the return or
   the raise of the call, for every sequence of outcomes of next_chunk. The
   chunk loop never reads the partial file, so only its first PartCap bytes are
   kept here and a successful chunk is always possible. *)

\* the first PartCap bytes of a file's content
Kept(data) == IF Len(data) > PartCap THEN SubSeq(data, 1, PartCap) ELSE data

\* downloader.next_chunk() returns (lines 181-188 and 260-267)
ChunkOkLive ==
    /\ pc = "chunk"
    /\ LET bytes == ChunkBytes(eng.id, eng.progress)
           progress == eng.progress + Len(bytes)
           done == progress = Size(eng.id)
           pct == Pct(progress, Size(eng.id))
           data == Kept(WriteAt(fs[eng.temp], eng.pos, bytes))
           h == [hist EXCEPT !.lastReq = "ok", !.lastStatus = 0, !.sleptSince = FALSE,
                             !.reqAttempt = eng.file_attempt, !.consec = 0,
                             !.anyOk = TRUE, !.chunkSleeps = 0,
                             !.lastSleep = NoHist.lastSleep,
                             !.reset = hist.reset \/ hist.consec > 0,
                             !.suppressed = hist.suppressed \/ pct = eng.last_pct]
       IN /\ fs' = WriteFile(fs, eng.temp, data)
          /\ eng' = [eng EXCEPT !.pos = Len(data),
                                !.progress = progress,
                                !.done = done,
                                !.chunk_attempt = AfterSuccess(eng.chunk_attempt),
                                !.last_pct = IF Reports(pct, eng.last_pct) THEN pct
                                             ELSE eng.last_pct]
          /\ hist' = IF Reports(pct, eng.last_pct)
                     THEN Report(h, pct, "chunk", eng.file_attempt)
                     ELSE h
          /\ pc' = IF done THEN "publish" ELSE "chunk"
    /\ UNCHANGED <<stack, dirs, failed_items, force, checkbox, walk_error, whist, others>>

\* the walker at the first child of the root folder (A.txt), or at the child of
\* the second page (Report) after the metadata of both earlier children failed
InitLive ==
    /\ pc = "child"
    /\ \E sc \in Scenarios :
          /\ fs = sc.fs
          /\ ledger = sc.ledger
          /\ run = [NoRun EXCEPT !.fs0 = sc.fs, !.ledger0 = sc.ledger,
                                 !.input = "ok", !.outcome = "walk"]
    /\ dirs = {Join(DestDir, Name(RootId))}
    /\ force \in BOOLEAN
    /\ checkbox = force
    /\ \/ /\ stack = <<[Frame(RootId, Join(DestDir, Name(RootId)))
                          EXCEPT !.items = Pages(RootId)[1]]>>
          /\ failed_items = <<>>
          /\ whist = NoWalkHist
       \/ /\ stack = <<[Frame(RootId, Join(DestDir, Name(RootId)))
                          EXCEPT !.page = 2, !.items = Pages(RootId)[2]]>>
          /\ failed_items = <<FailureRecord("a", "meta"), FailureRecord("sub", "meta")>>
          /\ whist = [NoWalkHist EXCEPT !.faulted = TRUE, !.order = <<"a", "sub">>,
                                        !.finished = {"a", "sub"}]
    /\ walk_error = "none"
    /\ eng = IdleEng
    /\ hist = NoHist
    /\ button = "disabled"
    /\ threads = <<>>
    /\ probe = NoProbe

\* the call has not begun, or is under way
CallPending == eng.result \in {"none", "running"}

NextLive ==
    \/ CallPending /\ StartFetch
    \/ CallPending /\ StartExport
    \/ OpenPartial
    \/ ChunkOkLive
    \/ ChunkHttpError
    \/ ChunkNetError
    \/ Publish
    \/ CatchChild

\* the worker thread keeps running: a step of the call that can be taken is
\* taken; how each request ends is the transport's choice
SpecLive == InitLive /\ [][NextLive]_vars /\ WF_vars(NextLive)

----------------------------------------------------------------------------
(* A run on the folder whose children share display names, into an empty
   destination *)

InitDup ==
    /\ pc = "idle"
    /\ stack = <<>>
    /\ fs = << >>
    /\ ledger = NoLedger
    /\ dirs = {}
    /\ failed_items = <<>>
    /\ force = FALSE
    /\ checkbox = force
    /\ walk_error = "none"
    /\ eng = IdleEng
    /\ hist = NoHist
    /\ whist = NoWalkHist
    /\ button = "normal"
    /\ run = [NoRun EXCEPT !.folder = DupId]
    /\ threads = <<>>
    /\ probe = NoProbe

SpecDup == InitDup /\ [][Next]_vars

----------------------------------------------------------------------------
(* The pure functions, applied to inputs drawn at Init *)

\* the local files, 'size' fields and 'md5Checksum' fields the comparator is
\* applied to
Contents == UNION {[1..n -> {1, 2}] : n \in 0..MaxLen}

LocalFiles ==
    {[exists |-> FALSE, data |-> <<>>, readable |-> FALSE]}
    \cup {[exists |-> TRUE, data |-> c, readable |-> r] : c \in Contents, r \in BOOLEAN}

DriveSizes == {NoSize, BadSize} \cup (0..(MaxLen + 1))

DriveMd5s == {NoMd5} \cup {Md5(c) : c \in Contents}

\* the mimeType fields, directories and names the walker's chain is applied to
Mimes == {FolderMime, DocMime, SheetMime, SlideMime, BinaryMime, "application/pdf", ""}

ProbeDirs == {DestDir, Join(DestDir, Name(RootId))}

ProbeNames == {Name("a"), Name("r"), Name("sub")}

\* the names of two children of one folder, final names and names that end in
\* the reserved suffix
SiblingNames == {Name("a"), Name("a") \o ".part", Name("r"), Name("r") \o ".pdf.part"}

SiblingMimes == {BinaryMime, DocMime}

\* the status codes the backoff is applied to
BackoffStatuses == {NoStatus, 404, 429, 499, 500, 503, 599, 600}

\* nothing applied yet, no input
BlankProbe ==
    [fn |-> "none", applied |-> FALSE, local |-> LocalFile(<< >>, ""),
     drive_size |-> NoSize, drive_md5 |-> NoMd5, mime |-> "", dir |-> "",
     name |-> "", skip |-> FALSE, hashed |-> FALSE, call |-> "", out |-> "",
     as |-> "", mime2 |-> "", name2 |-> "", temp |-> "", out2 |-> "",
     caught |-> 0, logged |-> 0, attempt |-> 1, status |-> NoStatus,
     delay |-> 0, delay_next |-> 0, delay_plain |-> 0]

SkipProbe(local, drive_size, drive_md5) ==
    [BlankProbe EXCEPT !.fn = "skip", !.local = local, !.drive_size = drive_size,
                       !.drive_md5 = drive_md5]

\* the integrity check after the move, on the published file
VerifyProbe(local, drive_md5) ==
    [BlankProbe EXCEPT !.fn = "verify", !.local = local, !.drive_md5 = drive_md5]

DispatchProbe(mime, dir, name) ==
    [BlankProbe EXCEPT !.fn = "dispatch", !.mime = mime, !.dir = dir, !.name = name]

\* two children of the folder whose local directory is dir
PathsProbe(dir, mime, name, mime2, name2) ==
    [BlankProbe EXCEPT !.fn = "paths", !.dir = dir, !.mime = mime, !.name = name,
                       !.mime2 = mime2, !.name2 = name2]

BackoffProbe(attempt, status) ==
    [BlankProbe EXCEPT !.fn = "backoff", !.attempt = attempt, !.status = status]

InitPure ==
    /\ pc = "idle"
    /\ stack = <<>>
    /\ fs = << >>
    /\ ledger = NoLedger
    /\ dirs = {}
    /\ failed_items = <<>>
    /\ force = FALSE
    /\ checkbox = force
    /\ walk_error = "none"
    /\ eng = IdleEng
    /\ hist = NoHist
    /\ whist = NoWalkHist
    /\ button = "normal"
    /\ run = NoRun
    /\ threads = <<>>
    /\ probe \in {SkipProbe(l, sz, m) : l \in LocalFiles, sz \in DriveSizes, m \in DriveMd5s}
                 \cup {VerifyProbe(l, m) : l \in LocalFiles, m \in DriveMd5s}
                 \cup {DispatchProbe(m, d, n) : m \in Mimes, d \in ProbeDirs, n \in ProbeNames}
                 \cup {PathsProbe(Join(DestDir, Name(RootId)), m1, n1, m2, n2) :
                         m1 \in SiblingMimes, n1 \in SiblingNames,
                         m2 \in SiblingMimes, n2 \in SiblingNames}
                 \cup {BackoffProbe(n, st) : n \in 1..MaxAttempt, st \in BackoffStatuses}

\* should_skip_binary_file is called
ApplySkip ==
    /\ probe.fn = "skip"
    /\ ~probe.applied
    /\ LET r == SkipCheck(probe.local, probe.drive_size, probe.drive_md5)
       IN probe' = [probe EXCEPT !.applied = TRUE, !.skip = r.skip, !.hashed = r.hashed,
                       !.caught = SkipCaught(probe.local, probe.drive_size, probe.drive_md5),
                       !.logged = SkipCaughtLogged(probe.local, probe.drive_size,
                                                   probe.drive_md5)]
    /\ UNCHANGED <<pc, stack, fs, dirs, failed_items, force, checkbox, walk_error, eng, hist, whist,
                   button, run, ledger, threads>>

\* the integrity check after the move is run
ApplyVerify ==
    /\ probe.fn = "verify"
    /\ ~probe.applied
    /\ probe' = [probe EXCEPT !.applied = TRUE,
                              !.caught = VerifyCaught(probe.local, probe.drive_md5),
                              !.logged = VerifyCaughtLogged(probe.local, probe.drive_md5)]
    /\ UNCHANGED <<pc, stack, fs, dirs, failed_items, force, checkbox, walk_error, eng, hist, whist,
                   button, run, ledger, threads>>

\* the walker's chain is run on a child's metadata
ApplyDispatch ==
    /\ probe.fn = "dispatch"
    /\ ~probe.applied
    /\ LET r == Dispatch(probe.mime, probe.dir, probe.name)
       IN probe' = [probe EXCEPT !.applied = TRUE, !.call = r.call, !.out = r.out,
                                 !.as = r.as]
    /\ UNCHANGED <<pc, stack, fs, dirs, failed_items, force, checkbox, walk_error, eng, hist, whist,
                   button, run, ledger, threads>>

\* the walker's chain gives two children their local paths, the transfer of the
\* first derives its temp_path
ApplyPaths ==
    /\ probe.fn = "paths"
    /\ ~probe.applied
    /\ LET r == Dispatch(probe.mime, probe.dir, probe.name)
           r2 == Dispatch(probe.mime2, probe.dir, probe.name2)
       IN probe' = [probe EXCEPT !.applied = TRUE, !.call = r.call, !.out = r.out,
                                 !.as = r.as, !.temp = TempPath(r.out),
                                 !.out2 = r2.out]
    /\ UNCHANGED <<pc, stack, fs, dirs, failed_items, force, checkbox, walk_error, eng, hist, whist,
                   button, run, ledger, threads>>

\* _safe_sleep_backoff is called with the attempt number and the status, with
\* the next attempt number, and with the attempt number and no status
ApplyBackoff ==
    /\ probe.fn = "backoff"
    /\ ~probe.applied
    /\ probe' = [probe EXCEPT !.applied = TRUE,
                    !.delay = SafeSleepBackoff(probe.attempt, probe.status),
                    !.delay_next = SafeSleepBackoff(probe.attempt + 1, probe.status),
                    !.delay_plain = SafeSleepBackoff(probe.attempt, NoStatus)]
    /\ UNCHANGED <<pc, stack, fs, dirs, failed_items, force, checkbox, walk_error, eng, hist, whist,
                   button, run, ledger, threads>>

NextPure ==
    \/ ApplySkip
    \/ ApplyVerify
    \/ ApplyDispatch
    \/ ApplyPaths
    \/ ApplyBackoff

SpecPure == InitPure /\ [][NextPure]_vars

----------------------------------------------------------------------------
(* download_file_to_path_with_retries and
   export_google_workspace_file_with_retries side by side: each function's file
   loop, written out from its own lines, run on the same remote byte stream,
   from the same local files, against the same outcomes of next_chunk *)

NoFile == [exists |-> FALSE, data |-> <<>>]
FileOf(data) == [exists |-> TRUE, data |-> data]

\* the locals of one call after its skip test did not return; request: the API
\* call the latest stream was opened with; slept: the call of
\* _safe_sleep_backoff that followed the latest step, if any; cb: the latest
\* argument of progress_percent_callback; md5warn: the mismatch warning
CallStart(part, final) ==
    [at |-> "open", request |-> "none", file_attempt |-> 1, chunk_attempt |-> 0,
     last_pct |-> -1, progress |-> 0, pos |-> 0, done |-> FALSE, part |-> part,
     final |-> final, result |-> "running", slept |-> NoHist.lastSleep, cb |-> -1,
     md5warn |-> FALSE]

\* lines 170-178
FetchOpen(c) ==
    LET mode == OpenMode(c.part.exists)
        data == IF mode = "wb" THEN <<>> ELSE c.part.data
    IN [c EXCEPT !.at = "chunk", !.part = FileOf(data),
                 !.pos = OpenedPos(mode, data), !.request = "get_media",
                 !.progress = NewDownloader, !.done = FALSE, !.chunk_attempt = 0,
                 !.last_pct = -1, !.slept = NoHist.lastSleep]

\* lines 228-232
FetchFileHandler(c) ==
    IF FileBudgetExhausted(c.file_attempt)
    THEN [c EXCEPT !.at = "done", !.result = "raised"]
    ELSE [c EXCEPT !.at = "open", !.file_attempt = c.file_attempt + 1,
                   !.slept = FileSleep(c.file_attempt)]

\* lines 181-188
FetchChunkOk(c, e) ==
    LET bytes == ChunkBytes(e, c.progress)
        progress == c.progress + Len(bytes)
        pct == Pct(progress, Size(e))
    IN [c EXCEPT !.part = FileOf(WriteAt(c.part.data, c.pos, bytes)),
                 !.pos = c.pos + Len(bytes), !.progress = progress,
                 !.done = (progress = Size(e)),
                 !.chunk_attempt = AfterSuccess(c.chunk_attempt),
                 !.last_pct = IF Reports(pct, c.last_pct) THEN pct ELSE c.last_pct,
                 !.cb = IF Reports(pct, c.last_pct) THEN pct ELSE c.cb,
                 !.at = IF progress = Size(e) THEN "publish" ELSE "chunk",
                 !.slept = NoHist.lastSleep]

\* lines 189-212 (an HttpError of the status, or with NoStatus a socket / OS
\* error), and the file handler when the chunk handler re-raises
FetchChunkFail(c, status) ==
    LET ca == c.chunk_attempt + 1
    IN IF ChunkBudgetExceeded(ca)
       THEN FetchFileHandler([c EXCEPT !.chunk_attempt = ca,
                                       !.slept = NoHist.lastSleep])
       ELSE [c EXCEPT !.chunk_attempt = ca, !.slept = ChunkSleep(ca, status),
                      !.request = "get_media", !.progress = NewDownloader]

\* lines 215-226
FetchPublish(c, drive_md5) ==
    [c EXCEPT !.final = FileOf(c.part.data), !.part = NoFile, !.cb = 100,
              !.md5warn = Md5Mismatch("fetch", c.part.data, drive_md5),
              !.at = "done", !.result = "returned", !.slept = NoHist.lastSleep]

\* lines 249-257
ExportOpen(c) ==
    LET mode == IF c.part.exists THEN "r+b" ELSE "wb"
        data == IF mode = "wb" THEN <<>> ELSE c.part.data
    IN [c EXCEPT !.at = "chunk", !.part = FileOf(data),
                 !.pos = IF mode = "r+b" THEN Len(data) ELSE 0,
                 !.request = "export_media",
                 !.progress = 0, !.done = FALSE, !.chunk_attempt = 0,
                 !.last_pct = -1, !.slept = NoHist.lastSleep]

\* lines 297-301
ExportFileHandler(c) ==
    IF c.file_attempt >= MAX_FILE_RETRIES
    THEN [c EXCEPT !.at = "done", !.result = "raised"]
    ELSE [c EXCEPT !.at = "open", !.file_attempt = c.file_attempt + 1,
                   !.slept = [level |-> "file", n |-> c.file_attempt,
                              delay |-> SafeSleepBackoff(c.file_attempt, NoStatus)]]

\* an export loop that keeps its count of failures over a successful chunk
ExportAfterSuccessKept(chunk_attempt) == chunk_attempt

\* line 261: chunk_attempt = 0
ExportAfterSuccess(chunk_attempt) == 0

\* lines 260-267
ExportChunkOk(c, e) ==
    LET bytes == ChunkBytes(e, c.progress)
        progress == c.progress + Len(bytes)
        pct == Pct(progress, Size(e))
    IN [c EXCEPT !.part = FileOf(WriteAt(c.part.data, c.pos, bytes)),
                 !.pos = c.pos + Len(bytes), !.progress = progress,
                 !.done = (progress = Size(e)),
                 !.chunk_attempt = ExportAfterSuccess(c.chunk_attempt),
                 !.last_pct = IF pct # c.last_pct THEN pct ELSE c.last_pct,
                 !.cb = IF pct # c.last_pct THEN pct ELSE c.cb,
                 !.at = IF progress = Size(e) THEN "publish" ELSE "chunk",
                 !.slept = NoHist.lastSleep]

\* lines 268-290, and the file handler when the chunk handler re-raises
ExportChunkFail(c, status) ==
    LET ca == c.chunk_attempt + 1
    IN IF ca > MAX_CHUNK_RETRIES
       THEN ExportFileHandler([c EXCEPT !.chunk_attempt = ca,
                                        !.slept = NoHist.lastSleep])
       ELSE [c EXCEPT !.chunk_attempt = ca,
                      !.slept = [level |-> "chunk", n |-> ca,
                                 delay |-> SafeSleepBackoff(ca, status)],
                      !.request = "export_media", !.progress = 0]

\* lines 292-295
ExportPublish(c) ==
    [c EXCEPT !.final = FileOf(c.part.data), !.part = NoFile, !.cb = 100,
              !.at = "done", !.result = "returned", !.slept = NoHist.lastSleep]

\* the remote objects the two calls are run on, the partial files and the final
\* files they can find
PairObjects == {"a", "r"}
PairParts == {NoFile, FileOf(<<11, 12>>)}
PairFinals == {NoFile, FileOf(<<99>>)}

PairProbe(e, drive_md5, part, final) ==
    [fn |-> "pair", e |-> e, drive_md5 |-> drive_md5,
     fetch |-> CallStart(part, final), export |-> CallStart(part, final)]

InitPair ==
    /\ pc = "idle"
    /\ stack = <<>>
    /\ fs = << >>
    /\ ledger = NoLedger
    /\ dirs = {}
    /\ failed_items = <<>>
    /\ force = FALSE
    /\ checkbox = force
    /\ walk_error = "none"
    /\ eng = IdleEng
    /\ hist = NoHist
    /\ whist = NoWalkHist
    /\ button = "normal"
    /\ run = NoRun
    /\ threads = <<>>
    /\ \E e \in PairObjects, p \in PairParts, f \in PairFinals :
          \E m \in {NoMd5, Md5(RemoteData(e))} : probe = PairProbe(e, m, p, f)

\* both calls open the partial file and their stream
PairOpen ==
    /\ probe.fetch.at = "open"
    /\ probe' = [probe EXCEPT !.fetch = FetchOpen(probe.fetch),
                              !.export = ExportOpen(probe.export)]
    /\ UNCHANGED <<pc, stack, fs, dirs, failed_items, force, checkbox, walk_error, eng, hist, whist,
                   button, run, ledger, threads>>

\* next_chunk returns in both calls
PairChunkOk ==
    /\ probe.fetch.at = "chunk"
    /\ probe.fetch.pos + Len(ChunkBytes(probe.e, probe.fetch.progress)) <= PartCap
    /\ probe' = [probe EXCEPT !.fetch = FetchChunkOk(probe.fetch, probe.e),
                              !.export = ExportChunkOk(probe.export, probe.e)]
    /\ UNCHANGED <<pc, stack, fs, dirs, failed_items, force, checkbox, walk_error, eng, hist, whist,
                   button, run, ledger, threads>>

\* next_chunk raises an HttpError in both calls
PairChunkHttpError ==
    /\ probe.fetch.at = "chunk"
    /\ \E status \in HttpStatuses :
          probe' = [probe EXCEPT !.fetch = FetchChunkFail(probe.fetch, status),
                                 !.export = ExportChunkFail(probe.export, status)]
    /\ UNCHANGED <<pc, stack, fs, dirs, failed_items, force, checkbox, walk_error, eng, hist, whist,
                   button, run, ledger, threads>>

\* next_chunk raises a socket / OS error in both calls
PairChunkNetError ==
    /\ probe.fetch.at = "chunk"
    /\ probe' = [probe EXCEPT !.fetch = FetchChunkFail(probe.fetch, NoStatus),
                              !.export = ExportChunkFail(probe.export, NoStatus)]
    /\ UNCHANGED <<pc, stack, fs, dirs, failed_items, force, checkbox, walk_error, eng, hist, whist,
                   button, run, ledger, threads>>

\* both calls publish and return
PairPublish ==
    /\ probe.fetch.at = "publish"
    /\ probe' = [probe EXCEPT !.fetch = FetchPublish(probe.fetch, probe.drive_md5),
                              !.export = ExportPublish(probe.export)]
    /\ UNCHANGED <<pc, stack, fs, dirs, failed_items, force, checkbox, walk_error, eng, hist, whist,
                   button, run, ledger, threads>>

NextPair ==
    \/ PairOpen
    \/ PairChunkOk
    \/ PairChunkHttpError
    \/ PairChunkNetError
    \/ PairPublish

SpecPair == InitPair /\ [][NextPair]_vars

----------------------------------------------------------------------------
(* The Download button and the worker threads it starts: each worker runs
   download_logic; its walk is reduced to the partial files it opens *)

\* worker threads started in one behaviour
MaxThreads == 2

\* the entries whose partial file a walk opens, in order
WalkOrder == <<"a", "b", "r">>

\* pc: "started" (Thread.start() done, download_logic not yet at its first
\* line), "walk" (in download_folder_recursive, between two transfers), "write"
\* (the partial file of WalkOrder[at] is open), "done"; at: transfers begun
NewThread == [pc |-> "started", at |-> 0]

InitGui ==
    /\ pc = "idle"
    /\ stack = <<>>
    /\ fs = << >>
    /\ ledger = NoLedger
    /\ dirs = {}
    /\ failed_items = <<>>
    /\ force = FALSE
    /\ checkbox = force
    /\ walk_error = "none"
    /\ eng = IdleEng
    /\ hist = NoHist
    /\ whist = NoWalkHist
    /\ button = "normal"
    /\ run = NoRun
    /\ threads = <<>>
    /\ probe = NoProbe

\* the button's command runs: start_download_thread starts a worker and returns;
\* a disabled button does not run its command
PressDownload ==
    /\ button = "normal"
    /\ Len(threads) < MaxThreads
    /\ threads' = Append(threads, NewThread)
    /\ UNCHANGED <<pc, stack, fs, dirs, failed_items, force, checkbox, walk_error, eng, hist, whist,
                   button, run, ledger, probe>>

\* the worker runs download_logic from its first line, which disables the
\* button, to the call of download_folder_recursive
WorkerBegins(i) ==
    /\ threads[i].pc = "started"
    /\ button' = "disabled"
    /\ threads' = [threads EXCEPT ![i].pc = "walk"]
    /\ UNCHANGED <<pc, stack, fs, dirs, failed_items, force, checkbox, walk_error, eng, hist, whist,
                   run, ledger, probe>>

\* the worker's walk begins a transfer: open(temp_path, mode)
WorkerOpens(i) ==
    /\ threads[i].pc = "walk"
    /\ threads[i].at < Len(WalkOrder)
    /\ threads' = [threads EXCEPT ![i].pc = "write", ![i].at = threads[i].at + 1]
    /\ UNCHANGED <<pc, stack, fs, dirs, failed_items, force, checkbox, walk_error, eng, hist, whist,
                   button, run, ledger, probe>>

\* the transfer ends (published or raised): the partial file is closed
WorkerCloses(i) ==
    /\ threads[i].pc = "write"
    /\ threads' = [threads EXCEPT ![i].pc = "walk"]
    /\ UNCHANGED <<pc, stack, fs, dirs, failed_items, force, checkbox, walk_error, eng, hist, whist,
                   button, run, ledger, probe>>

\* the walk is over: the finally block of download_logic enables the button
WorkerFinally(i) ==
    /\ threads[i].pc = "walk"
    /\ threads[i].at = Len(WalkOrder)
    /\ button' = "normal"
    /\ threads' = [threads EXCEPT ![i].pc = "done"]
    /\ UNCHANGED <<pc, stack, fs, dirs, failed_items, force, checkbox, walk_error, eng, hist, whist,
                   run, ledger, probe>>

NextGui ==
    \/ PressDownload
    \/ \E i \in DOMAIN threads : WorkerBegins(i)
    \/ \E i \in DOMAIN threads : WorkerOpens(i)
    \/ \E i \in DOMAIN threads : WorkerCloses(i)
    \/ \E i \in DOMAIN threads : WorkerFinally(i)

SpecGui == InitGui /\ [][NextGui]_vars

TypeOK ==
    /\ pc \in PcValues
    /\ force \in BOOLEAN
    /\ checkbox \in BOOLEAN
    /\ \A p \in DOMAIN fs : Len(fs[p]) <= PartCap
    /\ button \in {"normal", "disabled"}
    /\ ledger.exists \in BOOLEAN
    /\ whist.faulted \in BOOLEAN
    /\ run.writes \in 0..1

----------------------------------------------------------------------------
(* The claims *)

OutPath(e) ==
    CASE e = "a" -> Join(Join(DestDir, Name(RootId)), Name("a"))
      [] e = "b" -> Join(Join(Join(DestDir, Name(RootId)), Name("sub")), Name("b"))
      [] e = "r" -> Join(Join(DestDir, Name(RootId)), Name("r") \o ".pdf")

FinalPaths == {OutPath(e) : e \in {"a", "b", "r"}}

\* C1: a binary transfer that starts without a partial file and whose transport
\* fails exactly once, after k bytes (0 < k < N) are in the partial file, and
\* succeeds on every later request publishes a final file that equals the
\* remote content (N bytes).
C1_ResumedFileEqualsRemote ==
    (/\ eng.kind = "fetch"
     /\ eng.result = "returned"
     /\ ~hist.hadPart
     /\ hist.fails = 1
     /\ 0 < hist.failAt /\ hist.failAt < Size(eng.id))
    => fs[eng.out] = RemoteData(eng.id)

\* C2: while a transfer (fetch or export) runs, no step rewrites or truncates
\* the bytes the partial file holds: the partial file stays, its old content is
\* a prefix of its new content, over chunk retries and file attempts, and the
\* publishing step moves exactly that content to the final path.
C2_PartialNeverRewritten ==
    [][/\ (pc \in {"open", "chunk", "raised"} /\ Exists(fs, eng.temp))
            => (Exists(fs', eng.temp) /\ IsPrefix(fs[eng.temp], fs'[eng.temp]))
       /\ (pc = "publish" /\ pc' # "publish")
            => (Exists(fs', eng.out) /\ fs'[eng.out] = fs[eng.temp])]_vars

\* C2 witness: in a second or later file attempt a chunk has been appended
\* behind the bytes that earlier attempts left in the partial file
C2_Witness ==
    /\ pc = "chunk"
    /\ eng.file_attempt >= 2
    /\ hist.lastReq = "ok"
    /\ hist.reqAttempt = eng.file_attempt
    /\ eng.pos > eng.progress

\* C3: a transfer raises to the walker exactly when its MAX_FILE_RETRIES-th
\* file attempt fails; the walker then appends one FailureRecord (id, name,
\* error) for that entry, so that no entry has more than one, and its loop is
\* at the next sibling of the listing.
C3_ExhaustedFileIsRecordedOnce ==
    [][/\ (pc' = "raised" /\ pc # "raised")
            => (eng'.file_attempt = MAX_FILE_RETRIES
                /\ hist'.exhausted = MAX_FILE_RETRIES)
       /\ (hist'.exhausted = MAX_FILE_RETRIES /\ hist.exhausted < MAX_FILE_RETRIES)
            => pc' = "raised"
       /\ (pc = "raised" /\ pc' # "raised")
            => (/\ failed_items' = Append(failed_items,
                       [id |-> eng.id, name |-> Name(eng.id), error |-> eng.error])
                /\ pc' = "child"
                /\ Len(stack') = Len(stack)
                /\ stack'[Len(stack)].items = Top.items
                /\ stack'[Len(stack)].idx = Top.idx + 1)
       /\ \A e \in Entries : Cardinality({i \in DOMAIN failed_items' :
                                           failed_items'[i].id = e}) <= 1]_vars

\* C3 witness: A.txt is in the ledger with a transport error and its sibling's
\* child B.txt has been downloaded after it
C3_Witness ==
    /\ \E i \in DOMAIN failed_items :
          failed_items[i] = [id |-> "a", name |-> "A.txt", error |-> "sock"]
    /\ Exists(fs, OutPath("b"))

\* C4: once the root metadata is resolved, download_folder_recursive never
\* raises, whatever fails beneath the root (a child's metadata fetch, a child's
\* transfer, the listing of a folder's children, a later page of a listing).
C4_WalkNeverRaisesBelowRoot == pc = "walk_raised" => walk_error = "meta"

\* C4 as amended: a failure of a child's metadata fetch or transfer is recorded
\* and the loop goes on to the next sibling; a failure to list a subfolder (any
\* page) is recorded once for the subfolder and its parent's loop goes on to the
\* subfolder's next sibling; only the root metadata fetch and a failure to list
\* the root (any page) make download_folder_recursive raise.
C4_Amended ==
    [][/\ (pc' = "walk_raised" /\ pc # "walk_raised")
            => (pc = "root" \/ (pc = "list" /\ Len(stack) = 1))
       /\ (pc \in {"child", "raised"} /\ failed_items' # failed_items)
            => (/\ pc' = "child"
                /\ stack' = Advance(stack)
                /\ failed_items' =
                      IF pc = "child"
                      THEN Append(failed_items, FailureRecord(Item, "meta"))
                      ELSE Append(failed_items, FailureRecord(eng.id, eng.error)))
       /\ (pc = "list" /\ Len(stack) > 1
           /\ (Len(stack') < Len(stack) \/ failed_items' # failed_items))
            => (/\ failed_items' = Append(failed_items, FailureRecord(Top.folder, "list"))
                /\ pc' = "child"
                /\ stack' = Advance(SubSeq(stack, 1, Len(stack) - 1)))
       /\ (pc \notin {"child", "raised", "list"}) => failed_items' = failed_items]_vars

\* C4 witness: the listing of the subfolder failed, the subfolder is in the
\* ledger, and the entry after it (Report) has been exported
C4_Witness ==
    /\ \E i \in DOMAIN failed_items : failed_items[i] = FailureRecord("sub", "list")
    /\ Exists(fs, OutPath("r"))

\* C5: a chunk request that fails with a non-retryable HTTP status (neither 429
\* nor 500-599) makes the transfer raise at once: no further chunk request, no
\* backoff sleep, no further file attempt.
C5_PermanentErrorRaisesAtOnce ==
    (hist.lastReq = "http" /\ ~RetryableStatus(hist.lastStatus))
    => (/\ eng.result = "raised"
        /\ ~hist.sleptSince
        /\ eng.file_attempt = hist.reqAttempt)

\* C6: no step of a transfer removes or truncates a final path; a final path
\* changes only in the one step that renames onto it the partial file of a
\* chunk loop that signalled done, and then holds that file's whole content;
\* chunks are never written into it.
C6_FinalChangesOnlyByRename ==
    [][\A p \in FinalPaths :
          /\ Exists(fs, p) => Exists(fs', p)
          /\ (Exists(fs', p) /\ (~Exists(fs, p) \/ fs'[p] # fs[p]))
                => (/\ pc = "publish"
                    /\ eng.done
                    /\ eng.progress = Size(eng.id)
                    /\ p = eng.out
                    /\ fs'[p] = fs[eng.temp]
                    /\ ~Exists(fs', eng.temp))]_vars

\* C6 witness: chunks have been written while the final path still holds the
\* content it had before the transfer
C6_Witness ==
    /\ pc = "chunk"
    /\ Exists(fs, eng.out)
    /\ fs[eng.out] = <<99>>
    /\ Len(fs[eng.temp]) > 0

\* C7: a transfer raises to its caller only when its file attempt counter is
\* MAX_FILE_RETRIES and each of these file attempts ended because the chunk
\* attempt counter exceeded MAX_CHUNK_RETRIES.
C7_RaisesOnlyAfterBothBudgets ==
    eng.result = "raised"
    => (/\ eng.file_attempt = MAX_FILE_RETRIES
        /\ hist.exhausted = MAX_FILE_RETRIES
        /\ eng.chunk_attempt > MAX_CHUNK_RETRIES)

\* C7 witness: a transfer has raised on a transient error (HTTP 503)
C7_Witness ==
    /\ pc = "raised"
    /\ hist.lastReq = "http"
    /\ hist.lastStatus = 503

\* C8: after a successful chunk the chunk attempt counter is 0; in the chunk
\* loop it equals the number of failed requests since the latest successful one;
\* and the chunk loop escalates only on the (MAX_CHUNK_RETRIES + 1)-th failed
\* request in a row.
C8_SuccessResetsChunkBudget ==
    /\ (pc = "chunk" /\ hist.lastReq = "ok") => eng.chunk_attempt = 0
    /\ pc = "chunk" => eng.chunk_attempt = hist.consec
    /\ hist.exhausted > 0 => hist.escConsec = MAX_CHUNK_RETRIES + 1

\* C8 witness: in one file attempt a success has followed a failure, and the
\* chunk loop has escalated
C8_Witness ==
    /\ hist.reset
    /\ hist.exhausted > 0
    /\ pc = "chunk"

\* C9: the percentages passed to the progress callback during one transfer call
\* never decrease.
C9_ProgressNeverDecreases ==
    Len(hist.cb) = 2 => hist.cb[1].pct <= hist.cb[2].pct

\* C10: during one transfer call the progress callback is never called twice in
\* a row with the same percentage, the final report of 100 included.
C10_NoRepeatedPercentage ==
    Len(hist.cb) = 2 => hist.cb[1].pct # hist.cb[2].pct

\* C10 as amended: two reports in a row that the chunk loop of one file attempt
\* makes never carry the same percentage.
C10_Amended ==
    (/\ Len(hist.cb) = 2
     /\ hist.cb[1].src = "chunk"
     /\ hist.cb[2].src = "chunk"
     /\ hist.cb[1].attempt = hist.cb[2].attempt)
    => hist.cb[1].pct # hist.cb[2].pct

\* C10 witness: a chunk's percentage equalled the last reported one and was not
\* reported, between two reports of one file attempt
C10_Witness ==
    /\ hist.suppressed
    /\ Len(hist.cb) = 2
    /\ hist.cb[1].src = "chunk"
    /\ hist.cb[2].src = "chunk"
    /\ hist.cb[1].attempt = hist.cb[2].attempt

\* C11: a hash mismatch after the transfer is not fatal: for every entry whose
\* integrity check after the move found the local MD5 different from the remote
\* MD5, the published file is kept under the final path, the call has returned
\* the final path (no further file attempt, no exception at the walker) and the
\* ledger holds no FailureRecord of the entry.
C11_Md5MismatchIsNotFatal ==
    \A e \in whist.warned :
        /\ Exists(fs, OutPath(e))
        /\ Md5(fs[OutPath(e)]) # DriveMd5(e)
        /\ \A i \in 1..Len(failed_items) : failed_items[i].id # e
        /\ eng.id = e => /\ eng.result = "returned"
                        /\ pc \notin {"open", "chunk", "publish", "raised"}

\* a run has ended after the integrity check of A.txt logged a mismatch
C11_Witness == pc = "run_done" /\ "a" \in whist.warned

\* C12: for every existing local file whose byte length equals the present remote
\* size, should_skip_binary_file returns true and never computes the hash,
\* whatever the remote hash is (present and different included).
C12_SizeMatchSkipsWithoutHash ==
    (/\ probe.fn = "skip"
     /\ probe.applied
     /\ probe.local.exists
     /\ probe.drive_size >= 0
     /\ Len(probe.local.data) = probe.drive_size)
    => probe.skip /\ ~probe.hashed

\* the comparator has skipped a file of the remote size whose hash is not the
\* remote hash
C12_Witness ==
    /\ probe.fn = "skip"
    /\ probe.applied
    /\ probe.local.exists
    /\ probe.local.readable
    /\ Len(probe.local.data) = probe.drive_size
    /\ probe.drive_md5 # NoMd5
    /\ probe.drive_md5 # Md5(probe.local.data)
    /\ probe.skip

\* C13: should_skip_binary_file equals the reference decision: false when the
\* local file does not exist; true when the remote size is present and equals the
\* local size; otherwise true exactly when the remote hash is present and equals
\* the hash of the local file (a file that cannot be read has none); false in
\* every other case.
C13_SkipEqualsReference ==
    (probe.fn = "skip" /\ probe.applied)
    => probe.skip =
         (IF ~probe.local.exists THEN FALSE
          ELSE IF probe.drive_size = Len(probe.local.data) THEN TRUE
          ELSE /\ probe.drive_md5 # NoMd5
               /\ probe.local.readable
               /\ probe.drive_md5 = Md5(probe.local.data))

\* the comparator has skipped a file whose size differs and whose hash matches
C13_Witness ==
    /\ probe.fn = "skip"
    /\ probe.applied
    /\ probe.local.exists
    /\ probe.drive_size >= 0
    /\ probe.drive_size # Len(probe.local.data)
    /\ probe.drive_md5 = Md5(probe.local.data)
    /\ probe.skip

\* C17: every native-document child goes to the export function with the target
\* localDir/name.<ext> (pdf for a document, xlsx for a spreadsheet, pdf for a
\* presentation), never to the binary fetch and never under its bare name; every
\* child that is neither a folder nor one of these three kinds is fetched to
\* localDir/name.
C17_DispatchByKind ==
    (probe.fn = "dispatch" /\ probe.applied)
    => LET bare == probe.dir \o "/" \o probe.name
       IN /\ probe.mime = DocMime
               => probe.call = "export" /\ probe.out = bare \o ".pdf"
          /\ probe.mime = SheetMime
               => probe.call = "export" /\ probe.out = bare \o ".xlsx"
          /\ probe.mime = SlideMime
               => probe.call = "export" /\ probe.out = bare \o ".pdf"
          /\ probe.mime \in {DocMime, SheetMime, SlideMime}
               => probe.call # "fetch" /\ probe.out # bare
          /\ probe.mime \notin {FolderMime, DocMime, SheetMime, SlideMime}
               => probe.call = "fetch" /\ probe.out = bare

\* the chain has sent a spreadsheet to the export function
C17_Witness ==
    /\ probe.fn = "dispatch"
    /\ probe.applied
    /\ probe.mime = SheetMime
    /\ probe.call = "export"
    /\ probe.name = Name("r")

\* C14: when the final file of a binary entry already matches the remote object
\* by size or by hash, the fetch reports success (progress 100) without opening
\* a stream and without creating or changing any local file or directory; and a
\* run over a destination that already holds the correct A.txt never opens a
\* stream for A.txt, while a run of it that meets no remote failure still
\* fetches the absent B.txt.
C14_SkipOpensNoStream ==
    /\ [][(/\ AtItem
           /\ Dispatch(Mime(Item), Top.path, Name(Item)).call = "fetch"
           /\ Exists(fs, Top.path \o "/" \o Name(Item))
           /\ \/ Len(fs[Top.path \o "/" \o Name(Item)]) = Size(Item)
              \/ Md5(fs[Top.path \o "/" \o Name(Item)]) = Md5(RemoteData(Item))
           /\ stack' # stack
           /\ failed_items' = failed_items)
          => /\ eng'.result = "skipped"
             /\ eng'.id = Item
             /\ hist'.cb = <<[pct |-> 100, src |-> "skip", attempt |-> 0]>>
             /\ hist'.lastReq = "none"
             /\ whist'.streams = whist.streams
             /\ fs' = fs
             /\ dirs' = dirs
             /\ pc' = "child"]_vars
    /\ [](("D/R/A.txt" \in DOMAIN run.fs0 /\ run.fs0["D/R/A.txt"] = RemoteData("a"))
          => /\ "a" \notin whist.streams
             /\ "D/R/A.txt.part" \notin DOMAIN fs
             /\ fs["D/R/A.txt"] = RemoteData("a")
             /\ (pc = "run_done" /\ run.outcome = "walk" /\ ~whist.faulted)
                  => /\ "b" \in whist.streams
                     /\ "D/R/sub/B.txt" \in DOMAIN fs
                     /\ fs["D/R/sub/B.txt"] = RemoteData("b"))

\* a run over a destination holding the correct A.txt has ended: A.txt was
\* skipped, B.txt was fetched
C14_Witness ==
    /\ pc = "run_done"
    /\ "D/R/A.txt" \in DOMAIN run.fs0
    /\ run.fs0["D/R/A.txt"] = RemoteData("a")
    /\ "a" \notin whist.streams
    /\ "b" \in whist.streams
    /\ "D/R/sub/B.txt" \in DOMAIN fs
    /\ ~whist.faulted

\* C15: an export opens an export stream exactly when, at the time of the call,
\* the target file does not exist or re-export is forced; when the target exists
\* and re-export is not forced the call reports success with progress 100 and
\* leaves the existing file and any partial file untouched.
C15_ExportSkipsIffExistsAndNotForced ==
    /\ [][(/\ AtItem
           /\ Dispatch(Mime(Item), Top.path, Name(Item)).call = "export"
           /\ eng' # eng)
          => LET out == Top.path \o "/" \o Name(Item) \o ".pdf"
             IN /\ (pc' = "open") <=> (out \notin DOMAIN fs \/ force)
                /\ (out \in DOMAIN fs /\ ~force)
                     => /\ eng'.result = "skipped"
                        /\ eng'.id = Item
                        /\ hist'.cb = <<[pct |-> 100, src |-> "skip", attempt |-> 0]>>
                        /\ whist'.streams = whist.streams
                        /\ fs' = fs
                        /\ pc' = "child"]_vars
    /\ []((eng.kind = "export" /\ eng.result = "skipped") => eng.id \notin whist.streams)
    /\ []((eng.kind = "export" /\ pc \in {"chunk", "publish"}) => eng.id \in whist.streams)

\* a run has ended whose export of Report found Report.pdf and left it as it was
C15_Witness ==
    /\ pc = "run_done"
    /\ eng.kind = "export"
    /\ eng.result = "skipped"
    /\ fs["D/R/Report.pdf"] = <<77>>

\* C16: a walk in which no remote call fails, into an empty destination, leaves
\* every binary entry at destinationDir/<rootName>/<relative path> with exactly
\* the remote bytes (A.txt, sub/B.txt), leaves no partial file, and the run
\* writes no ledger file.
C16_CleanWalkMaterialisesTree ==
    (/\ pc = "run_done"
     /\ run.outcome = "walk"
     /\ ~whist.faulted
     /\ run.fs0 = << >>)
    => /\ "D/R/A.txt" \in DOMAIN fs
       /\ fs["D/R/A.txt"] = RemoteData("a")
       /\ "D/R/sub/B.txt" \in DOMAIN fs
       /\ fs["D/R/sub/B.txt"] = RemoteData("b")
       /\ \A p \in DOMAIN fs : p \notin {"D/R/A.txt.part", "D/R/sub/B.txt.part",
                                         "D/R/Report.pdf.part"}
       /\ DOMAIN fs = {"D/R/A.txt", "D/R/sub/B.txt", "D/R/Report.pdf"}
       /\ {"D/R", "D/R/sub"} \subseteq dirs
       /\ failed_items = <<>>
       /\ ~ledger.exists
       /\ run.writes = 0

\* a run into an empty destination has ended without any remote failure
C16_Witness ==
    /\ pc = "run_done"
    /\ run.outcome = "walk"
    /\ ~whist.faulted
    /\ run.fs0 = << >>
    /\ Len(fs["D/R/A.txt"]) = SizeA

C19_LedgerWrittenIffFailures ==
    /\ run.writes <= 1
    /\ pc # "run_done" => (run.writes = 0 /\ ledger = run.ledger0)
    /\ pc = "run_done"
         => /\ (run.writes = 1) <=> (failed_items # <<>>)
            /\ failed_items = <<>> => ledger = run.ledger0
            /\ failed_items # <<>>
                 => /\ ledger.exists
                    /\ Len(ledger.lines) = Len(failed_items)
                    /\ \A i \in 1..Len(failed_items) :
                          ledger.lines[i] = failed_items[i].id \o "\t"
                                            \o failed_items[i].name \o "\t"
                                            \o failed_items[i].error \o "\n"

\* a run that found an older ledger file has ended with two failure records
C19_Witness ==
    /\ pc = "run_done"
    /\ run.ledger0.exists
    /\ Len(failed_items) = 2
    /\ failed_items[1].id # failed_items[2].id
    /\ run.writes = 1

\* C20: after any sequence of presses of the Download button at most one walk is
\* in flight at a time: no two workers are inside download_folder_recursive
\* together, and no partial file has two writers.
C20_AtMostOneWalkInFlight ==
    \A i, j \in DOMAIN threads :
        (i # j) => ~(threads[i].pc \in {"walk", "write"} /\ threads[j].pc \in {"walk", "write"})

\* C21: the reserved partial suffix never collides with a final filename: for
\* any two children of one folder, the partial path derived for one (its final
\* path followed by ".part") is not the final path of the other.
C21_PartialNeverIsSiblingFinal ==
    (probe.fn = "paths" /\ probe.applied /\ probe.call # "recurse")
    => probe.temp # probe.out2

\* C23: every exception caught in the comparator and in the integrity check of
\* the transfer engine is followed by a message to the log sink at the point of
\* capture.
C23_EveryCaughtErrorLogged ==
    (probe.fn \in {"skip", "verify"} /\ probe.applied)
    => probe.logged = probe.caught

\* C24: for every attempt number n >= 1 and every status s (absent included) the
\* backoff delay is min(MAX_BACKOFF_SECONDS, m * INITIAL_BACKOFF *
\* BACKOFF_FACTOR^(n-1)) with m = 2 when s is 429 or in 500..599 and m = 1
\* otherwise: doubled before the clamp, never above MAX_BACKOFF_SECONDS.
C24_BackoffFormula ==
    (probe.fn = "backoff" /\ probe.applied)
    => LET m == IF probe.status = 429 \/ probe.status \in 500..599 THEN 2 ELSE 1
           raw == m * 1 * 2^(probe.attempt - 1)
       IN /\ raw <= 120 => probe.delay = raw
          /\ raw > 120 => probe.delay = 120
          /\ probe.delay <= 120

\* the backoff has been applied where only the doubling passes the maximum
C24_Witness ==
    /\ probe.fn = "backoff"
    /\ probe.applied
    /\ probe.status = 503
    /\ 2^(probe.attempt - 1) < 120
    /\ 2 * 2^(probe.attempt - 1) > 120
    /\ probe.delay = 120

\* C25: for every fixed status the backoff delay does not decrease from attempt
\* n to attempt n + 1, and for every n the delay with status 503 is at least the
\* delay with no status.
C25_BackoffMonotone ==
    (probe.fn = "backoff" /\ probe.applied)
    => /\ probe.delay_next >= probe.delay
       /\ probe.status = 503 => probe.delay >= probe.delay_plain

\* the backoff has been applied at the attempt whose successor is clamped
C25_Witness ==
    /\ probe.fn = "backoff"
    /\ probe.applied
    /\ probe.status = 503
    /\ probe.delay_next = 120
    /\ probe.delay < 120
    /\ probe.delay > probe.delay_plain

\* C22: when two children of one folder map to the same local target path, the
\* later one in listing order overwrites the earlier one's file: after a walk
\* with no transport failure the target path holds the content of the later
\* entry.
C22_LaterEntryOverwrites ==
    (/\ pc = "run_done"
     /\ run.outcome = "walk"
     /\ run.folder = DupId
     /\ ~whist.faulted)
    => /\ fs["D/Dup/Notes.pdf"] = RemoteData("d2")
       /\ fs["D/Dup/more/C.bin"] = RemoteData("p2")

\* C26: over a transport on which every chunk request fails, one transfer call
\* makes exactly MAX_FILE_RETRIES file attempts of exactly MAX_CHUNK_RETRIES + 1
\* chunk requests each; a backoff delay follows each of the first
\* MAX_CHUNK_RETRIES failures of an attempt and not the escalating one, and each
\* failed file attempt except the last; then the call raises.
C26_AllFailingTransportCounts ==
    (eng.result \in {"running", "raised"} /\ ~hist.anyOk)
    => /\ hist.consec <= MAX_CHUNK_RETRIES + 1
       /\ hist.chunkSleeps = (IF hist.consec <= MAX_CHUNK_RETRIES
                              THEN hist.consec ELSE MAX_CHUNK_RETRIES)
       /\ hist.exhausted > 0 => hist.escConsec = MAX_CHUNK_RETRIES + 1
       /\ hist.exhausted <= MAX_FILE_RETRIES
       /\ (eng.result = "raised") <=> (hist.exhausted = MAX_FILE_RETRIES)
       /\ eng.result = "running"
            => /\ hist.fileSleeps = hist.exhausted
               /\ eng.file_attempt = hist.exhausted + 1
               /\ (pc = "chunk" /\ hist.consec > 0)
                    => hist.lastSleep
                         = [level |-> "chunk", n |-> hist.consec,
                            delay |-> SafeSleepBackoff(hist.consec, hist.lastStatus)]
               /\ (pc = "open" /\ hist.exhausted > 0)
                    => hist.lastSleep
                         = [level |-> "file", n |-> hist.exhausted,
                            delay |-> SafeSleepBackoff(hist.exhausted, NoStatus)]
       /\ eng.result = "raised"
            => /\ hist.fileSleeps = MAX_FILE_RETRIES - 1
               /\ eng.file_attempt = MAX_FILE_RETRIES
               /\ hist.consec = MAX_CHUNK_RETRIES + 1
               /\ hist.lastSleep.level = "none"

\* a fetch whose every chunk request failed, the last with status 503, has raised
C26_Witness ==
    /\ pc = "raised"
    /\ eng.kind = "fetch"
    /\ ~hist.anyOk
    /\ hist.lastStatus = 503
    /\ hist.exhausted = MAX_FILE_RETRIES

\* C29: the walk is depth-first and sequential in listing order: a child is
\* taken up only when every child taken up before it is finished (transferred,
\* skipped or recorded as failed), except the folders it lies in; and a folder
\* is finished only when its whole subtree has been processed, unless its
\* listing failed.
C29_DepthFirstSequential ==
    LET pre == [e \in {"a", "sub", "b", "r"} |->
                  CASE e = "a" -> 1 [] e = "sub" -> 2 [] e = "b" -> 3 [] e = "r" -> 4]
        n == Len(whist.order)
    IN run.folder = RootId
       => /\ \A k \in 1..n : whist.order[k] \in {"a", "sub", "b", "r"}
          /\ \A j, k \in 1..n : j < k => pre[whist.order[j]] < pre[whist.order[k]]
          /\ \A j, k \in 1..n :
                j < k => \/ whist.order[j] \in whist.finished
                         \/ whist.order[j] = "sub" /\ whist.order[k] = "b"
          /\ \A k \in 1..n : whist.order[k] # "a" => whist.order[1] = "a"
          /\ ("sub" \in whist.finished /\ \A i \in 1..Len(failed_items) :
                                             failed_items[i].id # "sub")
               => "b" \in whist.finished
          /\ \A e \in whist.finished : \E k \in 1..n : whist.order[k] = e
          /\ eng.result = "running" => /\ n > 0
                                       /\ whist.order[n] = eng.id
                                       /\ eng.id \notin whist.finished

\* the last child of the root folder is being transferred after the subfolder
\* and its child were finished
C29_Witness ==
    /\ eng.id = "r"
    /\ eng.result = "running"
    /\ whist.order = <<"a", "sub", "b", "r">>
    /\ whist.finished = {"a", "sub", "b"}

\* C30: when a transfer call has returned after running the chunk loop the
\* partial file no longer exists; when it has raised after exhausting its file
\* attempts the partial file is still there and the final path is exactly as the
\* call found it (absent, or with its earlier content).
C30_PartialGoneOrFinalUntouched ==
    /\ eng.result = "returned"
         => /\ ~Exists(fs, eng.out \o ".part")
            /\ Exists(fs, eng.out)
    /\ eng.result = "raised"
         => /\ Exists(fs, eng.out \o ".part")
            /\ Exists(fs, eng.out) <=> hist.final0.exists
            /\ hist.final0.exists => fs[eng.out] = hist.final0.data

\* a forced re-export over an existing Report.pdf has raised
C30_Witness ==
    /\ eng.result = "raised"
    /\ eng.kind = "export"
    /\ hist.final0.exists
    /\ fs[eng.out] = <<77>>
    /\ Exists(fs, eng.out \o ".part")

\* C27: every transfer call on a finite remote object eventually terminates, by
\* returning or by raising, whatever the outcomes of its chunk requests are.
C27_EveryTransferTerminates ==
    [](eng.result = "running" => <>(eng.result # "running"))

\* C28: from the same partial file and final file, against the same outcomes of
\* the chunk requests, the fetch and the export are step for step in the same
\* place with the same file attempt, chunk attempt, progress, reported
\* percentage, backoff delay, files and outcome; they differ only in the request
\* that opens the stream and in the fetch's hash check after the move.
C28_FetchAndExportInStep ==
    probe.fn = "pair"
    => /\ [probe.fetch EXCEPT !.request = "", !.md5warn = FALSE]
            = [probe.export EXCEPT !.request = "", !.md5warn = FALSE]
       /\ probe.fetch.at # "open" \/ probe.fetch.file_attempt > 1
            => /\ probe.fetch.request = "get_media"
               /\ probe.export.request = "export_media"
       /\ ~probe.export.md5warn

\* both calls have returned in their second file attempt, after chunk failures
\* and a successful chunk in between, the fetch with a mismatch warning
C28_Witness ==
    /\ probe.fn = "pair"
    /\ probe.fetch.result = "returned"
    /\ probe.export.result = "returned"
    /\ probe.fetch.file_attempt = 2
    /\ probe.fetch.md5warn
    /\ Len(probe.export.final.data) > Size(probe.e)

\* C31: the force-re-export switch is process-wide and read at the start of
\* each export call: an export call skips exactly when its target exists and
\* the switch is off at that moment, whatever the switch was earlier in the
\* walk; a toggle changes nothing about the transfers begun before it; and the
\* switch always equals the checked state of the check box.
C31_SwitchReadAtEachExport ==
    /\ [][/\ (/\ AtItem
              /\ Dispatch(Mime(Item), Top.path, Name(Item)).call = "export"
              /\ eng' # eng)
                => /\ eng'.kind = "export"
                   /\ eng'.id = Item
                   /\ (eng'.result = "skipped")
                        <=> (/\ Exists(fs, Dispatch(Mime(Item), Top.path, Name(Item)).out)
                             /\ ~force)
                   /\ (eng'.result = "running")
                        <=> ~(/\ Exists(fs, Dispatch(Mime(Item), Top.path, Name(Item)).out)
                              /\ ~force)
          /\ force' # force
                => /\ force' = ~force
                   /\ UNCHANGED <<pc, stack, fs, dirs, failed_items, eng, hist, whist>>]_vars
    /\ [](checkbox = force)

\* an export over the existing Report.pdf is under way, after the first child
\* was through, although the switch is off and the box unchecked by now: the
\* switch was on when the call began, and the later click did not end the call
C31_Witness ==
    /\ eng.kind = "export"
    /\ eng.result = "running"
    /\ Exists(fs, eng.out)
    /\ run.fs0 = fs
    /\ "a" \in whist.finished
    /\ ~force
    /\ ~checkbox

\* C32: each run has its own failure ledger, which is flushed on every way out
\* of the run: the list starts empty with the run and only grows during the
\* walk, and when the run is over, also after an exception that escaped the
\* walk, the ledger file holds one line for every record of the list, in order,
\* and the Download button is enabled again.
C32_LedgerFlushedOnEveryExit ==
    /\ [][/\ pc = "logic" => failed_items' = <<>>
          /\ pc \notin {"idle", "logic"}
                => /\ Len(failed_items) <= Len(failed_items')
                   /\ \A i \in 1..Len(failed_items) : failed_items'[i] = failed_items[i]]_vars
    /\ [](pc = "run_done"
            => /\ button = "normal"
               /\ failed_items # <<>>
                    => /\ ledger.exists
                       /\ ledger.lines
                            = [i \in 1..Len(failed_items) |-> LedgerLine(failed_items[i])]
                       /\ run.writes = 1
               /\ failed_items = <<>> => (ledger = run.ledger0 /\ run.writes = 0))

\* the listing of the root folder failed at its second page, after two children
\* of the first page had been recorded as failed: both are in the ledger file
C32_Witness ==
    /\ pc = "run_done"
    /\ walk_error = "list"
    /\ Len(failed_items) = 2
    /\ ledger.lines = <<LedgerLine(FailureRecord("a", "sock")),
                        LedgerLine(FailureRecord("sub", "list"))>>
    /\ button = "normal"

============================================================================
